---- MODULE Spec2Model ----
(***************************************************************************)
(* nbtrock: the Bedrock NBT codec (src/src/lib.rs) and the path-addressed  *)
(* editor of its wasm wrapper (src/src/wasm.rs).                           *)
(*                                                                         *)
(* Data representation.                                                    *)
(*   byte buffer  Vec<u8>       its run-length encoding: a sequence of     *)
(*                              runs <<byte, count>>, count >= 1, adjacent *)
(*                              runs of different bytes (a 65536-byte name *)
(*                              is one run)                                *)
(*   String                     its UTF-8 bytes, as a byte buffer          *)
(*   Value                      [t |-> tag id, v |-> payload]              *)
(*     Byte/Short/Int           the signed integer                         *)
(*     Float                    the 32-bit pattern, as a signed 32-bit word*)
(*     Long/Double              the 64-bit pattern, as <<low, high>>, two  *)
(*                              signed 32-bit words                        *)
(*     ByteArray/IntArray       sequence of signed integers                *)
(*     LongArray                sequence of <<low, high>> pairs            *)
(*     String                   byte buffer                                *)
(*     List                     sequence of Values                         *)
(*     Compound                 the LinkedHashMap, as the sequence of its  *)
(*                              entries [k |-> key, v |-> Value] in        *)
(*                              iteration order, keys unique               *)
(*   Result<T, Error>           [ok |-> BOOLEAN, err |-> Err(..), ...]     *)
(***************************************************************************)
EXTENDS Integers, Sequences, FiniteSets, TLC

VARIABLES
    nbt,     \* the wasm::NBT object: [name |-> String, data |-> Value]
    stream,  \* the byte vector most recently produced by, or handed to, the codec
    last,    \* the most recent call: its arguments, the object before it, its result
    layout   \* the build: the offset rustc gave the Compound payload inside a Value

vars == <<nbt, stream, last, layout>>

(***************************************************************************)
(* Errors: lib.rs Error and wasm.rs WasmError, plus the two ways a call    *)
(* can end without returning: a panic, and undefined behaviour.            *)
(***************************************************************************)
Err(kind, of) == [kind |-> kind, of |-> of]
NoErr == Err("Ok", <<>>)
ErrIO == Err("IO", <<>>)
ErrUtf8(pos) == Err("Utf8", <<pos>>)
ErrRoot(tag) == Err("Root", <<tag>>)
ErrInvalidTypeId(tag) == Err("InvalidTypeId", <<tag>>)
ErrHeterogeneousList == Err("HeterogeneousList", <<>>)
ErrInvalidStr == Err("InvalidStr", <<>>)
ErrInvalidPath(seg) == Err("InvalidPath", seg)
ErrSerde == Err("Serde", <<>>)
Panic == Err("Panic", <<>>)
Undefined == Err("Undefined", <<>>)

(***************************************************************************)
(* Tag ids (Value::tag).                                                   *)
(***************************************************************************)
TagEnd == 0
TagByte == 1
TagShort == 2
TagInt == 3
TagLong == 4
TagFloat == 5
TagDouble == 6
TagByteArray == 7
TagString == 8
TagList == 9
TagCompound == 10
TagIntArray == 11
TagLongArray == 12

Val(t, v) == [t |-> t, v |-> v]
Value_tag(x) == x.t
Entry(k, v) == [k |-> k, v |-> v]
EmptyMap == <<>>
NBT(name, data) == [name |-> name, data |-> data]

(***************************************************************************)
(* Little-endian integers (byteorder's LE reads and writes).               *)
(***************************************************************************)
(***************************************************************************)
(* Byte buffers.                                                           *)
(***************************************************************************)
RECURSIVE BLen(_)
BLen(b) == IF b = <<>> THEN 0 ELSE b[1][2] + BLen(Tail(b))

\* b followed by c
BCat(b, c) ==
    IF b = <<>> THEN c
    ELSE IF c = <<>> THEN b
    ELSE IF b[Len(b)][1] = c[1][1]
         THEN SubSeq(b, 1, Len(b) - 1) \o <<<<c[1][1], b[Len(b)][2] + c[1][2]>>>> \o Tail(c)
         ELSE b \o c

\* the buffer holding the bytes of a plain sequence, and back
RECURSIVE Pack(_)
Pack(s) == IF s = <<>> THEN <<>> ELSE BCat(<<<<s[1], 1>>>>, Pack(Tail(s)))
RECURSIVE Unpack(_)
Unpack(b) == IF b = <<>> THEN <<>> ELSE [i \in 1..b[1][2] |-> b[1][1]] \o Unpack(Tail(b))

\* b without its first n bytes; the first n bytes of b
RECURSIVE BDrop(_, _)
BDrop(b, n) ==
    IF n = 0 \/ b = <<>> THEN b
    ELSE IF b[1][2] <= n THEN BDrop(Tail(b), n - b[1][2])
    ELSE <<<<b[1][1], b[1][2] - n>>>> \o Tail(b)
RECURSIVE BFirst(_, _)
BFirst(b, n) ==
    IF n = 0 \/ b = <<>> THEN <<>>
    ELSE IF b[1][2] <= n THEN <<b[1]>> \o BFirst(Tail(b), n - b[1][2])
    ELSE <<<<b[1][1], n>>>>

\* the byte at offset pos (from 0)
BAt(b, pos) == BDrop(b, pos)[1][1]

RECURSIVE LE(_, _)
\* the w low bytes of the two's complement of n, least significant first
LE(n, w) == IF w = 0 THEN <<>> ELSE <<n % 256>> \o LE(n \div 256, w - 1)
\* the same, pushed on the buffer c
Push(c, n, w) == BCat(c, Pack(LE(n, w)))

\* unsigned value of two bytes
U16(b) == b[1] + 256 * b[2]
\* signed value of the bytes of an i8, i16, i32
I8(b) == IF b[1] >= 128 THEN b[1] - 256 ELSE b[1]
I16(b) == IF b[2] >= 128 THEN (b[2] - 256) * 256 + b[1] ELSE b[2] * 256 + b[1]
I32(b) ==
    LET hi == IF b[4] >= 128 THEN b[4] - 256 ELSE b[4]
    IN  ((hi * 256 + b[3]) * 256 + b[2]) * 256 + b[1]
\* a 64-bit pattern as its two words
I64(b) == <<I32(SubSeq(b, 1, 4)), I32(SubSeq(b, 5, 8))>>
Push64(c, p) == Push(Push(c, p[1], 4), p[2], 4)

\* `s.len() as u16`: the cast keeps the low 16 bits
U16Mod == 65536

\* fn write_string
write_string(c, s) == BCat(Push(c, BLen(s) % U16Mod, 2), s)

(***************************************************************************)
(* Value::write.  The result carries the buffer as the call leaves it:     *)
(* `c` is a `&mut Vec<u8>`, so what was pushed before an error stays.      *)
(***************************************************************************)
WOk(c) == [ok |-> TRUE, err |-> NoErr, c |-> c]
WErr(e, c) == [ok |-> FALSE, err |-> e, c |-> c]

\* the `for &v in v` loops of the array arms, from element i on
RECURSIVE PushAll(_, _, _, _), PushAll64(_, _, _)
PushAll(c, v, i, w) == IF i > Len(v) THEN c ELSE PushAll(Push(c, v[i], w), v, i + 1, w)
PushAll64(c, v, i) == IF i > Len(v) THEN c ELSE PushAll64(Push64(c, v[i]), v, i + 1)

RECURSIVE Value_write(_, _), WriteList(_, _, _, _), WriteCompound(_, _, _)

\* the `for nbt in v` loop of the List arm, from element i on
WriteList(v, i, first_id, c) ==
    IF i > Len(v) THEN WOk(c)
    ELSE IF Value_tag(v[i]) # first_id THEN WErr(ErrHeterogeneousList, c)
    ELSE LET r == Value_write(v[i], c)
         IN  IF r.ok THEN WriteList(v, i + 1, first_id, r.c) ELSE r

\* the `for (name, nbt) in v` loop of the Compound arm, from entry i on
WriteCompound(v, i, c) ==
    IF i > Len(v) THEN WOk(Push(c, TagEnd, 1))
    ELSE LET r == Value_write(v[i].v, write_string(Push(c, Value_tag(v[i].v), 1), v[i].k))
         IN  IF r.ok THEN WriteCompound(v, i + 1, r.c) ELSE r

Value_write(x, c) ==
    CASE x.t = TagByte -> WOk(Push(c, x.v, 1))
      [] x.t = TagShort -> WOk(Push(c, x.v, 2))
      [] x.t = TagInt -> WOk(Push(c, x.v, 4))
      [] x.t = TagLong -> WOk(Push64(c, x.v))
      [] x.t = TagFloat -> WOk(Push(c, x.v, 4))
      [] x.t = TagDouble -> WOk(Push64(c, x.v))
      [] x.t = TagByteArray -> WOk(PushAll(Push(c, Len(x.v), 4), x.v, 1, 1))
      [] x.t = TagString -> WOk(write_string(c, x.v))
      [] x.t = TagList ->
            IF x.v = <<>> THEN WOk(Push(Push(c, 0, 1), 0, 4))
            ELSE LET first_id == Value_tag(x.v[1])
                 IN  WriteList(x.v, 1, first_id, Push(Push(c, first_id, 1), Len(x.v), 4))
      [] x.t = TagCompound -> WriteCompound(x.v, 1, c)
      [] x.t = TagIntArray -> WOk(PushAll(Push(c, Len(x.v), 4), x.v, 1, 4))
      [] x.t = TagLongArray -> WOk(PushAll64(Push(c, Len(x.v), 4), x.v, 1))

\* the framing magic, `vec.write_i32::<LE>(0x08)`
Magic == 8
\* the width of the framing header, `[0u8; 8]`
HeaderLen == 8

\* a writer whose length field counts the 8 header bytes as well
NBT_write_LenWithHeader(n, vec, bedrock_header) ==
    LET buf == write_string(Push(<<>>, TagCompound, 1), n.name)
        r == Value_write(n.data, buf)
    IN  IF ~r.ok THEN WErr(r.err, vec)
        ELSE IF bedrock_header
             THEN WOk(BCat(Push(Push(vec, Magic, 4), BLen(r.c) + HeaderLen, 4), r.c))
             ELSE WOk(BCat(vec, r.c))

\* NBT::write(&self, vec, bedrock_header): `vec` as the call leaves it
NBT_write(n, vec, bedrock_header) ==
    LET buf == write_string(Push(<<>>, TagCompound, 1), n.name)
        r == Value_write(n.data, buf)
    IN  IF ~r.ok THEN WErr(r.err, vec)
        ELSE IF bedrock_header
             THEN WOk(BCat(Push(Push(vec, Magic, 4), BLen(r.c), 4), r.c))
             ELSE WOk(BCat(vec, r.c))

\* NBT::header(r): Some(the first 8 bytes) or None
NBT_header(r) ==
    IF BLen(r) >= HeaderLen THEN [some |-> TRUE, h |-> BFirst(r, HeaderLen)]
    ELSE [some |-> FALSE, h |-> <<>>]

(***************************************************************************)
(* ritelinked::LinkedHashMap<String, Value>, as the sequence of entries in *)
(* iteration order.  `insert` of a key that is present replaces the value  *)
(* and moves the entry to the back of the list; `remove` unlinks the entry *)
(* and keeps the order of the others; `to_back` moves the entry to the     *)
(* back.                                                                   *)
(***************************************************************************)
MapHas(m, k) == \E i \in 1..Len(m) : m[i].k = k
MapGet(m, k) == (CHOOSE i \in 1..Len(m) : m[i].k = k)
MapRemove(m, k) == SelectSeq(m, LAMBDA e : e.k # k)
MapInsert(m, k, v) == MapRemove(m, k) \o <<Entry(k, v)>>
MapToBack(m, k) == IF MapHas(m, k) THEN MapRemove(m, k) \o <<m[MapGet(m, k)]>> ELSE m

(***************************************************************************)
(* Reading from the cursor `c`: the bytes b and the offset pos (from 0).   *)
(* A read result is [ok, err, v, pos]: the value and the offset after it.  *)
(***************************************************************************)
ROk(v, pos) == [ok |-> TRUE, err |-> NoErr, v |-> v, pos |-> pos]
RErr(e) == [ok |-> FALSE, err |-> e, v |-> <<>>, pos |-> 0]

\* read_exact succeeds when n bytes remain at pos (a seek may have put pos past the end)
Have(b, pos, n) == pos + n <= BLen(b)
\* the n bytes at pos, as a buffer and as a plain sequence
Take(b, pos, n) == BFirst(BDrop(b, pos), n)
Raw(b, pos, n) == Unpack(Take(b, pos, n))

\* String::from_utf8: whether the bytes are well-formed UTF-8
IsCont(s, i) == i <= Len(s) /\ s[i] >= 128 /\ s[i] <= 191
InRange(s, i, lo, hi) == i <= Len(s) /\ s[i] >= lo /\ s[i] <= hi
RECURSIVE Utf8From(_, _)
Utf8From(s, i) ==
    IF i > Len(s) THEN TRUE
    ELSE LET x == s[i]
         IN  CASE x < 128 -> Utf8From(s, i + 1)
               [] x >= 194 /\ x <= 223 -> IsCont(s, i + 1) /\ Utf8From(s, i + 2)
               [] x = 224 -> InRange(s, i + 1, 160, 191) /\ IsCont(s, i + 2) /\ Utf8From(s, i + 3)
               [] (x >= 225 /\ x <= 236) \/ x = 238 \/ x = 239 ->
                     IsCont(s, i + 1) /\ IsCont(s, i + 2) /\ Utf8From(s, i + 3)
               [] x = 237 -> InRange(s, i + 1, 128, 159) /\ IsCont(s, i + 2) /\ Utf8From(s, i + 3)
               [] x = 240 ->
                     InRange(s, i + 1, 144, 191) /\ IsCont(s, i + 2) /\ IsCont(s, i + 3)
                     /\ Utf8From(s, i + 4)
               [] x >= 241 /\ x <= 243 ->
                     IsCont(s, i + 1) /\ IsCont(s, i + 2) /\ IsCont(s, i + 3) /\ Utf8From(s, i + 4)
               [] x = 244 ->
                     InRange(s, i + 1, 128, 143) /\ IsCont(s, i + 2) /\ IsCont(s, i + 3)
                     /\ Utf8From(s, i + 4)
               [] OTHER -> FALSE
from_utf8(s) == (\A i \in 1..Len(s) : s[i][1] < 128) \/ Utf8From(Unpack(s), 1)

\* fn read_string
read_string(b, pos) ==
    IF ~Have(b, pos, 2) THEN RErr(ErrIO)
    ELSE LET len == U16(Raw(b, pos, 2))
         IN  IF len = 0 THEN ROk(<<>>, pos + 2)
             ELSE IF ~Have(b, pos + 2, len) THEN RErr(ErrIO)
             ELSE IF ~from_utf8(Take(b, pos + 2, len)) THEN RErr(ErrUtf8(pos + 2 + len))
             ELSE ROk(Take(b, pos + 2, len), pos + 2 + len)

\* fn read_next_header: [ok, err, v |-> <<tag, name>>, pos]
read_next_header(b, pos) ==
    IF ~Have(b, pos, 1) THEN RErr(ErrIO)
    ELSE LET tag == BAt(b, pos)
         IN  IF tag = TagEnd THEN ROk(<<TagEnd, <<>>>>, pos + 1)
             ELSE LET s == read_string(b, pos + 1)
                  IN  IF s.ok THEN ROk(<<tag, s.v>>, s.pos) ELSE s

\* `c.read_i32()? as usize` handed to Vec::with_capacity: a negative count is a
\* usize above isize::MAX, for which with_capacity panics ("capacity overflow")
CapacityOverflow(len) == len < 0

\* the element loops of the array arms: n more elements of w bytes each
RECURSIVE ReadArray(_, _, _, _, _)
ReadArray(w, b, pos, n, acc) ==
    IF n = 0 THEN ROk(acc, pos)
    ELSE IF ~Have(b, pos, w) THEN RErr(ErrIO)
    ELSE LET x == Raw(b, pos, w)
             e == CASE w = 1 -> I8(x) [] w = 4 -> I32(x) [] w = 8 -> I64(x)
         IN  ReadArray(w, b, pos + w, n - 1, Append(acc, e))

\* an array arm: the count, the allocation, the elements
ReadCounted(tag, w, b, pos) ==
    IF ~Have(b, pos, 4) THEN RErr(ErrIO)
    ELSE LET len == I32(Raw(b, pos, 4))
         IN  IF CapacityOverflow(len) THEN RErr(Panic)
             ELSE LET r == ReadArray(w, b, pos + 4, len, <<>>)
                  IN  IF r.ok THEN ROk(Val(tag, r.v), r.pos) ELSE r

\* a fixed-width scalar arm
ReadScalar(tag, w, b, pos) ==
    IF ~Have(b, pos, w) THEN RErr(ErrIO)
    ELSE LET x == Raw(b, pos, w)
             e == CASE w = 1 -> I8(x) [] w = 2 -> I16(x) [] w = 4 -> I32(x) [] w = 8 -> I64(x)
         IN  ROk(Val(tag, e), pos + w)

RECURSIVE Value_read(_, _, _), ReadList(_, _, _, _, _), ReadCompound(_, _, _)

\* the `for _ in 0..len` loop of the List arm: n more elements of type id
ReadList(id, b, pos, n, acc) ==
    IF n = 0 THEN ROk(Val(TagList, acc), pos)
    ELSE LET r == Value_read(id, b, pos)
         IN  IF r.ok THEN ReadList(id, b, r.pos, n - 1, Append(acc, r.v)) ELSE r

\* the `loop` of the Compound arm, with the map read so far
ReadCompound(b, pos, buf) ==
    LET h == read_next_header(b, pos)
    IN  IF ~h.ok THEN h
        ELSE IF h.v[1] = TagEnd THEN ROk(Val(TagCompound, buf), h.pos)
        ELSE LET r == Value_read(h.v[1], b, h.pos)
             IN  IF r.ok THEN ReadCompound(b, r.pos, MapInsert(buf, h.v[2], r.v)) ELSE r

Value_read(tag, b, pos) ==
    CASE tag = TagByte -> ReadScalar(tag, 1, b, pos)
      [] tag = TagShort -> ReadScalar(tag, 2, b, pos)
      [] tag = TagInt -> ReadScalar(tag, 4, b, pos)
      [] tag = TagLong -> ReadScalar(tag, 8, b, pos)
      [] tag = TagFloat -> ReadScalar(tag, 4, b, pos)
      [] tag = TagDouble -> ReadScalar(tag, 8, b, pos)
      [] tag = TagByteArray -> ReadCounted(tag, 1, b, pos)
      [] tag = TagString ->
            LET s == read_string(b, pos)
            IN  IF s.ok THEN ROk(Val(tag, s.v), s.pos) ELSE s
      [] tag = TagList ->
            IF ~Have(b, pos, 1) \/ ~Have(b, pos + 1, 4) THEN RErr(ErrIO)
            ELSE LET id == BAt(b, pos)
                     len == I32(Raw(b, pos + 1, 4))
                 IN  IF CapacityOverflow(len) THEN RErr(Panic)
                     ELSE ReadList(id, b, pos + 5, len, <<>>)
      [] tag = TagCompound -> ReadCompound(b, pos, EmptyMap)
      [] tag = TagIntArray -> ReadCounted(tag, 4, b, pos)
      [] tag = TagLongArray -> ReadCounted(tag, 8, b, pos)
      [] OTHER -> RErr(ErrInvalidTypeId(tag))

\* a reader that does not seek back to 0 when the first word is not the magic
NBT_read_NoSeekBack(b) ==
    IF ~Have(b, 0, 4) THEN RErr(ErrIO)
    ELSE LET start == IF I32(Raw(b, 0, 4)) = Magic THEN HeaderLen ELSE 4
             h == read_next_header(b, start)
         IN  IF ~h.ok THEN h
             ELSE IF h.v[1] # TagCompound THEN RErr(ErrRoot(h.v[1]))
             ELSE LET r == Value_read(h.v[1], b, h.pos)
                  IN  IF r.ok THEN ROk(NBT(h.v[2], r.v), r.pos) ELSE r

\* a reader that does not compare the root tag id with 0x0A
NBT_read_AnyRoot(b) ==
    IF ~Have(b, 0, 4) THEN RErr(ErrIO)
    ELSE LET start == IF I32(Raw(b, 0, 4)) = Magic THEN HeaderLen ELSE 0
             h == read_next_header(b, start)
         IN  IF ~h.ok THEN h
             ELSE LET r == Value_read(h.v[1], b, h.pos)
                  IN  IF r.ok THEN ROk(NBT(h.v[2], r.v), r.pos) ELSE r

\* NBT::read: [ok, err, v |-> the NBT, pos]
NBT_read(b) ==
    IF ~Have(b, 0, 4) THEN RErr(ErrIO)
    ELSE LET start == IF I32(Raw(b, 0, 4)) = Magic THEN HeaderLen ELSE 0
             h == read_next_header(b, start)
         IN  IF ~h.ok THEN h
             ELSE IF h.v[1] # TagCompound THEN RErr(ErrRoot(h.v[1]))
             ELSE LET r == Value_read(h.v[1], b, h.pos)
                  IN  IF r.ok THEN ROk(NBT(h.v[2], r.v), r.pos) ELSE r

(***************************************************************************)
(* The path mutator, wasm.rs NBT::set.                                     *)
(***************************************************************************)
Slash == <<47>>
Dot == <<46>>

\* the pieces of a path between its separators, empty ones included
RECURSIVE Pieces(_, _, _)
Pieces(path, i, cur) ==
    IF i > Len(path) THEN <<cur>>
    ELSE IF <<path[i]>> = Slash THEN <<cur>> \o Pieces(path, i + 1, <<>>)
    ELSE Pieces(path, i + 1, Append(cur, path[i]))

RECURSIVE PackEach(_)
PackEach(ss) == IF ss = <<>> THEN <<>> ELSE <<Pack(ss[1])>> \o PackEach(Tail(ss))

\* std::path::Path::new(&path).iter(): a leading separator is the component "/",
\* repeated and trailing separators are dropped, "." is dropped except in front
Components(path) ==
    LET raw == Unpack(path)
        pieces == Pieces(raw, 1, <<>>)
        lead == IF raw # <<>> /\ <<raw[1]>> = Slash THEN <<Slash>>
                ELSE IF pieces[1] = Dot THEN <<Dot>>
                ELSE <<>>
    IN  PackEach(lead \o SelectSeq(pieces, LAMBDA x : x # <<>> /\ x # Dot))

\* Option<IValue>: None, Some(a value serde turns into a Value), Some(one it cannot)
None == [kind |-> "none", v |-> <<>>]
Some(v) == [kind |-> "some", v |-> v]
SomeForeign == [kind |-> "foreign", v |-> <<>>]

\* deref_map(map): the map a raw pointer refers to; the pointer is the sequence
\* of keys leading from the root Compound to it
RECURSIVE deref_map(_, _)
deref_map(m, ptr) ==
    IF ptr = <<>> THEN m ELSE deref_map(m[MapGet(m, ptr[1])].v.v, Tail(ptr))

\* the root map after the map behind the pointer is replaced
RECURSIVE StoreMap(_, _, _)
StoreMap(m, ptr, new) ==
    IF ptr = <<>> THEN new
    ELSE LET i == MapGet(m, ptr[1])
         IN  [m EXCEPT ![i] = Entry(m[i].k, Val(TagCompound, StoreMap(m[i].v.v, Tail(ptr), new)))]

\* the `+ 0x08` of the pointer to the inserted Compound's map
PayloadSkip == 8

\* whether two path components are equal, the test `p == last`
IsLast(p, lastc) == p = lastc

SOk(m) == [err |-> NoErr, m |-> m]
SErr(e, m) == [err |-> e, m |-> m]

\* the `for p in path` loop from component i on: m is the root map, map the pointer
RECURSIVE SetLoop(_, _, _, _, _, _)
SetLoop(m, comps, i, map, value, off) ==
    IF i > Len(comps) THEN SOk(m)
    ELSE LET s == comps[i]
             here == deref_map(m, map)
         IN  IF IsLast(s, comps[Len(comps)])
             THEN CASE value.kind = "some" -> SOk(StoreMap(m, map, MapInsert(here, s, value.v)))
                    [] value.kind = "foreign" -> SErr(ErrSerde, m)
                    [] value.kind = "none" -> SOk(StoreMap(m, map, MapRemove(here, s)))
             ELSE IF MapHas(here, s)
             THEN IF here[MapGet(here, s)].v.t = TagCompound
                  THEN SetLoop(m, comps, i + 1, Append(map, s), value, off)
                  ELSE SErr(ErrInvalidPath(s), m)
             ELSE LET ins == MapToBack(MapInsert(here, s, Val(TagCompound, EmptyMap)), s)
                      m2 == StoreMap(m, map, ins)
                  IN  IF off = PayloadSkip
                      THEN SetLoop(m2, comps, i + 1, Append(map, s), value, off)
                      ELSE SErr(Undefined, m2)

\* the error of `set` on a root that is no Compound: Error::Root(255)
RootErrTag == 255

\* NBT::set(&mut self, path, value): [err, nbt]
NBT_set(n, path, value, off) ==
    IF n.data.t = TagCompound
    THEN LET comps == Components(path)
         IN  IF comps = <<>> THEN [err |-> ErrInvalidStr, nbt |-> n]
             ELSE LET r == SetLoop(n.data.v, comps, 1, <<>>, value, off)
                  IN  [err |-> r.err, nbt |-> NBT(n.name, Val(TagCompound, r.m))]
    ELSE [err |-> ErrRoot(RootErrTag), nbt |-> n]

\* NBT::named
NBT_named(name) == NBT(name, Val(TagCompound, EmptyMap))

(***************************************************************************)
(* Inputs and bounds.                                                      *)
(***************************************************************************)
MaxPath == 3        \* segments in a path handed to set
MaxEntries == 3     \* entries, at all levels together, of an edited tree

KeyA == Pack(<<97>>)
KeyB == Pack(<<98>>)
Segs == {KeyA, KeyB}
NameT == Pack(<<84>>)

RECURSIVE Join(_)
Join(segs) ==
    IF Len(segs) = 1 THEN segs[1] ELSE BCat(segs[1], BCat(Pack(Slash), Join(Tail(segs))))

SegSeqs == UNION {[1..n -> Segs] : n \in 1..MaxPath}
Paths == {Join(segs) : segs \in SegSeqs} \cup {<<>>, Pack(<<97, 47, 47, 98>>)}

Int3 == Val(TagInt, 3)
StrX == Val(TagString, Pack(<<120>>))
EmptyCompound == Val(TagCompound, EmptyMap)
Compound1(k, v) == Val(TagCompound, <<Entry(k, v)>>)
Compound2(k1, v1, k2, v2) == Val(TagCompound, <<Entry(k1, v1), Entry(k2, v2)>>)

SetValues == {None, SomeForeign, Some(Int3), Some(EmptyCompound)}

\* what the JavaScript side can hand to the constructor: any Value as the root
NewData ==
    {Int3, StrX, Val(TagList, <<>>), Val(TagByte, 1),
     Compound1(KeyA, Compound1(KeyA, Int3)),
     Compound2(KeyA, Int3, KeyB, Compound1(KeyA, StrX)),
     Compound2(KeyB, StrX, KeyA, EmptyCompound)}

\* the builds: rustc may put the tag in front of the payload, or in its niche
Layouts == {0, PayloadSkip}

RECURSIVE Size(_)
RECURSIVE SizeFrom(_, _)
SizeFrom(m, i) == IF i > Len(m) THEN 0 ELSE 1 + Size(m[i].v) + SizeFrom(m, i + 1)
Size(x) == IF x.t = TagCompound THEN SizeFrom(x.v, 1) ELSE 0

\* a call: `before` is the object the call was made on (for a constructor, the
\* object it made)
Call(op, param, before, err) == [op |-> op, param |-> param, before |-> before, err |-> err]

\* once a call has run into undefined behaviour the object is no longer usable
Usable == last.err.kind # "Undefined"

(***************************************************************************)
(* The editor: wasm.rs NBT::named, the constructor, and set.               *)
(***************************************************************************)
Named(name) ==
    /\ Usable
    /\ nbt' = NBT_named(name)
    /\ last' = Call("named", name, NBT_named(name), NoErr)
    /\ UNCHANGED <<stream, layout>>

New(name, data) ==
    /\ Usable
    /\ nbt' = NBT(name, data)
    /\ last' = Call("new", name, NBT(name, data), NoErr)
    /\ UNCHANGED <<stream, layout>>

Set(path, value) ==
    /\ Usable
    /\ LET r == NBT_set(nbt, path, value, layout)
       IN  /\ Size(r.nbt.data) <= MaxEntries
           /\ nbt' = r.nbt
           /\ last' = Call("set", [path |-> path, value |-> value], nbt, r.err)
    /\ UNCHANGED <<stream, layout>>

Init ==
    /\ nbt = NBT_named(NameT)
    /\ stream = <<>>
    /\ last = Call("named", NameT, NBT_named(NameT), NoErr)
    /\ layout \in Layouts

Next ==
    \/ Named(NameT)
    \/ \E data \in NewData : New(NameT, data)
    \/ \E path \in Paths, value \in SetValues : Set(path, value)

Spec == Init /\ [][Next]_vars

(***************************************************************************)
(* What the claims about set speak of: the value at a path, the tree with  *)
(* one key deleted, the tree a path spells out.                            *)
(***************************************************************************)
IsCompound(x) == x.t = TagCompound

\* whether entries lead from the Compound x along segs to a value
RECURSIVE ExistsAt(_, _)
ExistsAt(x, segs) ==
    /\ IsCompound(x)
    /\ MapHas(x.v, segs[1])
    /\ (Len(segs) > 1 => ExistsAt(x.v[MapGet(x.v, segs[1])].v, Tail(segs)))

\* the value at segs (where ExistsAt holds); the Compound itself for the empty path
RECURSIVE ValueAt(_, _)
ValueAt(x, segs) ==
    IF segs = <<>> THEN x ELSE ValueAt(x.v[MapGet(x.v, segs[1])].v, Tail(segs))

\* x with exactly the key at the end of segs deleted, all else in place
RECURSIVE Without(_, _)
Without(x, segs) ==
    LET i == MapGet(x.v, segs[1])
    IN  IF Len(segs) = 1
        THEN Val(TagCompound, SubSeq(x.v, 1, i - 1) \o SubSeq(x.v, i + 1, Len(x.v)))
        ELSE Val(TagCompound, [x.v EXCEPT ![i] = Entry(x.v[i].k, Without(x.v[i].v, Tail(segs)))])

\* Compounds nested along segs with v at the end, and nothing else
RECURSIVE Nest(_, _)
Nest(segs, v) ==
    IF Len(segs) = 1 THEN Compound1(segs[1], v)
    ELSE Compound1(segs[1], Nest(Tail(segs), v))

\* the segment sequences a path string spells
Spelled(path) == {segs \in SegSeqs : Join(segs) = path}

IsSet == last.op = "set"

\* C2: set(path, Some(v)) on an empty root Compound succeeds and leaves exactly
\* the Compounds nested along the path with v at its end, whatever the segment
\* names are (repeated names included).
C2_SetCreatesIntermediates ==
    (IsSet /\ last.before.data = EmptyCompound /\ last.param.value.kind = "some") =>
        \A segs \in Spelled(last.param.path) :
            /\ last.err = NoErr
            /\ nbt.data = Nest(segs, last.param.value.v)

\* C3: set(path, None) on a path at which a value exists succeeds and deletes
\* exactly the last key from the Compound holding it; every other entry keeps
\* its value and its place.
C3_RemoveDeletesExactlyThatKey ==
    (IsSet /\ last.param.value.kind = "none") =>
        \A segs \in Spelled(last.param.path) :
            ExistsAt(last.before.data, segs) =>
                /\ last.err = NoErr
                /\ nbt = NBT(last.before.name, Without(last.before.data, segs))

\* C4: set(path, None) on a path at which no value exists (the final key or an
\* intermediate segment is absent) succeeds and leaves the tree as it was.
C4_RemoveAbsentIsNoOp ==
    (IsSet /\ last.param.value.kind = "none" /\ IsCompound(last.before.data)) =>
        \A segs \in Spelled(last.param.path) :
            ~ExistsAt(last.before.data, segs) =>
                /\ last.err = NoErr
                /\ nbt = last.before

\* C5: set through a non-final segment that names an existing entry which is no
\* Compound fails with the path error naming that segment, and leaves the
\* Compound holding that entry (the entry and its siblings) as it was.
C5_NonContainerTraversalFails ==
    IsSet =>
        \A segs \in Spelled(last.param.path) :
            \A i \in 1..(Len(segs) - 1) :
                (/\ ExistsAt(last.before.data, SubSeq(segs, 1, i))
                 /\ ~IsCompound(ValueAt(last.before.data, SubSeq(segs, 1, i)))) =>
                    /\ last.err = ErrInvalidPath(segs[i])
                    /\ ExistsAt(nbt.data, SubSeq(segs, 1, i))
                    /\ ValueAt(nbt.data, SubSeq(segs, 1, i - 1))
                           = ValueAt(last.before.data, SubSeq(segs, 1, i - 1))

\* C10: set on a tree whose root is no Compound fails with the root-tag error
\* carrying the tag id of the actual root value, and leaves the tree unchanged.
C10_SetOnNonCompoundRoot ==
    (IsSet /\ ~IsCompound(last.before.data)) =>
        /\ last.err = ErrRoot(Value_tag(last.before.data))
        /\ nbt = last.before

(***************************************************************************)
(* The codec on a tree: bytes (NBT::write into a fresh vector),            *)
(* Value::write on the root, the header getter and from (NBT::read).       *)
(***************************************************************************)
MaxList == 2        \* elements of a generated List

\* 65536 bytes of "a": the shortest name whose length does not fit the u16 prefix
LongName == <<<<97, U16Mod>>>>
Names == {<<>>, NameT}
Keys == {KeyA, KeyB, <<>>}

VByte == Val(TagByte, -1)
VShort == Val(TagShort, -258)
VLong == Val(TagLong, <<-2, 1>>)
VFloat == Val(TagFloat, 1065353216)
VDouble == Val(TagDouble, <<0, -1074790400>>)
VByteArray == Val(TagByteArray, <<1, -1>>)
VStrEmpty == Val(TagString, <<>>)
VStrUtf8 == Val(TagString, Pack(<<195, 169>>))
VIntArray == Val(TagIntArray, <<-1, 65536>>)
VLongArray == Val(TagLongArray, <<<<1, 0>>, <<0, -1>>>>)
EmptyList == Val(TagList, <<>>)

Atoms ==
    {VByte, VShort, Int3, VLong, VFloat, VDouble, VByteArray, StrX, VStrEmpty, VStrUtf8,
     VIntArray, VLongArray, EmptyList, EmptyCompound}
ListElems == {Int3, StrX, EmptyList, Compound1(KeyA, Int3)}
Lists == {Val(TagList, e) : e \in UNION {[1..n -> ListElems] : n \in 1..MaxList}}
Inner ==
    Atoms \cup Lists
    \cup {Val(TagList, <<l>>) : l \in Lists}
    \cup {Compound1(KeyB, l) : l \in Lists}
Few == {Int3, StrX, Val(TagList, <<Int3, Int3>>), Val(TagList, <<Int3, StrX>>), EmptyCompound}
CodecRoots ==
    {EmptyCompound}
    \cup {Compound1(k, v) : k \in Keys, v \in Inner}
    \cup {Compound2(k[1], v, k[2], w) : k \in {<<KeyA, KeyB>>, <<KeyB, <<>>>>}, v \in Few, w \in Few}

\* wasm.rs bytes(bedrock_header): NBT::write into a fresh vector
Bytes(bedrock_header) ==
    /\ LET r == NBT_write(nbt, <<>>, bedrock_header)
       IN  /\ stream' = r.c
           /\ last' = Call("write", bedrock_header, nbt, r.err)
    /\ UNCHANGED <<nbt, layout>>

\* Value::write of the root value into a fresh vector
WriteValue ==
    /\ LET r == Value_write(nbt.data, <<>>)
       IN  /\ stream' = r.c
           /\ last' = Call("value_write", <<>>, nbt, r.err)
    /\ UNCHANGED <<nbt, layout>>

\* wasm.rs header(): NBT::header over bytes(true)
Header ==
    /\ LET r == NBT_write(nbt, <<>>, TRUE)
       IN  /\ stream' = r.c
           /\ last' = Call("header", IF r.ok THEN NBT_header(r.c) ELSE NBT_header(<<>>), nbt, r.err)
    /\ UNCHANGED <<nbt, layout>>

\* wasm.rs from(bytes): NBT::read of the buffer; `after` is the call that filled it
From ==
    /\ LET r == NBT_read(stream)
       IN  /\ nbt' = IF r.ok THEN r.v ELSE nbt
           /\ last' = Call("read", [bytes |-> stream, after |-> last.op, framed |-> last.param],
                           nbt, r.err)
    /\ UNCHANGED <<stream, layout>>

\* the generated trees: every root under the short names, two under the long one
\* the tree of the documented example: "Test" with root {"key": Int(3)}
NameTest == Pack(<<84, 101, 115, 116>>)
KeyKey == Pack(<<107, 101, 121>>)
TestTree == NBT(NameTest, Compound1(KeyKey, Int3))

Trees ==
    {NBT(name, data) : name \in Names, data \in CodecRoots}
    \cup {NBT(LongName, data) : data \in {EmptyCompound, Compound1(KeyA, Int3)}}
    \cup {TestTree}

\* the tree is any of the generated ones; the codec never does the pointer
\* arithmetic, so one build stands for all
InitCodec ==
    /\ \E n \in Trees :
          /\ nbt = n
          /\ last = Call("new", n.name, n, NoErr)
    /\ stream = <<>>
    /\ layout = PayloadSkip

NextCodec ==
    \/ \E bedrock_header \in BOOLEAN : Bytes(bedrock_header)
    \/ WriteValue
    \/ Header
    \/ (last.op = "write" /\ last.err = NoErr /\ From)

SpecCodec == InitCodec /\ [][NextCodec]_vars

(***************************************************************************)
(* The reader on arbitrary input: the caller assembles a byte vector from  *)
(* chunks and hands it to from.                                            *)
(***************************************************************************)
MaxChunks == 4      \* chunks in an assembled input

MinusOne == <<255, 255, 255, 255>>
RawChunks ==
    {LE(Magic, 4),                 \* the framing magic
     MinusOne,                     \* a 32-bit word: -1
     <<TagCompound, 0, 0>>,        \* tag ids followed by an empty name
     <<TagByteArray, 0, 0>>,
     <<TagInt, 0, 0>>,
     <<13, 0, 0>>,                 \* no tag id
     <<TagEnd>>,
     <<TagInt, 1, 0, 255>>,        \* a name that is not UTF-8
     <<TagInt, 5, 0>>,             \* a name cut short
     <<TagByte, 1, 0, 97, 1>>,     \* whole entries: "a": Byte(1), "b": Byte(2), "a": Byte(3)
     <<TagByte, 1, 0, 98, 2>>,
     <<TagByte, 1, 0, 97, 3, TagEnd>>}   \* the last entry and the closing End
Chunks == {Pack(c) : c \in RawChunks}

\* the number of chunks in the vector so far
Fed == IF last.op = "feed" THEN last.param ELSE 0

Feed(chunk) ==
    /\ last.op \in {"named", "feed"}
    /\ Fed < MaxChunks
    /\ stream' = BCat(stream, chunk)
    /\ last' = Call("feed", Fed + 1, nbt, NoErr)
    /\ UNCHANGED <<nbt, layout>>

InitDec ==
    /\ nbt = NBT_named(<<>>)
    /\ stream = <<>>
    /\ last = Call("named", <<>>, NBT_named(<<>>), NoErr)
    /\ layout = PayloadSkip

NextDec ==
    \/ \E chunk \in Chunks : Feed(chunk)
    \/ (last.op = "feed" /\ From)

SpecDec == InitDec /\ [][NextDec]_vars

(***************************************************************************)
(* What the claims about the codec speak of.                               *)
(***************************************************************************)
IsList(x) == x.t = TagList
Child(x, i) == IF IsList(x) THEN x.v[i] ELSE x.v[i].v
Children(x) == IF IsList(x) \/ IsCompound(x) THEN 1..Len(x.v) ELSE {}

\* a non-empty List with an element whose tag id differs from the first one's
Hetero(x) == IsList(x) /\ \E i \in 1..Len(x.v) : Value_tag(x.v[i]) # Value_tag(x.v[1])

RECURSIVE HasBadList(_)
HasBadList(x) == Hetero(x) \/ \E i \in Children(x) : HasBadList(Child(x, i))

\* every List homogeneous
Homogeneous(x) == ~HasBadList(x)

\* the buffer c as it is when the writer of x reaches the first such List: what
\* the entries and elements in front of it, and the names leading to it, put there
RECURSIVE BeforeBadList(_, _)
BeforeBadList(x, c) ==
    IF Hetero(x) THEN c
    ELSE LET i == CHOOSE j \in Children(x) :
                      /\ HasBadList(Child(x, j))
                      /\ \A k \in 1..(j - 1) : ~HasBadList(Child(x, k))
             front == SubSeq(x.v, 1, i - 1)
             c1 == IF IsList(x)
                   THEN WriteList(front, 1, Value_tag(x.v[1]),
                                  Push(Push(c, Value_tag(x.v[1]), 1), Len(x.v), 4)).c
                   ELSE LET w == WriteCompound(front, 1, c).c
                        IN  write_string(Push(BFirst(w, BLen(w) - 1), Value_tag(x.v[i].v), 1),
                                         x.v[i].k)
         IN  BeforeBadList(Child(x, i), c1)

IsRead == last.op = "read"

\* C1: for every tree with a Compound root and homogeneous Lists, whatever its
\* name, and for both framings, decoding the encoded bytes succeeds and gives
\* back the same name and the same root value, entry order included.
C1_RoundTrip ==
    (/\ IsRead
     /\ last.param.after = "write"
     /\ IsCompound(last.before.data)
     /\ Homogeneous(last.before.data)) =>
        /\ last.err = NoErr
        /\ nbt = last.before

\* C7: encoding a value that holds a heterogeneous List fails with
\* HeterogeneousList, and the output buffer holds no byte of that List (its
\* type byte, its count, its earlier elements) when the error is returned.
C7_HeterogeneousListRejected ==
    (last.op \in {"write", "value_write"} /\ HasBadList(last.before.data)) =>
        /\ last.err = ErrHeterogeneousList
        /\ stream = IF last.op = "write" THEN <<>>
                    ELSE BeforeBadList(last.before.data, <<>>)

\* the unsigned value of four little-endian bytes (below 2^31)
U32(b) == b[1] + 256 * (b[2] + 256 * (b[3] + 256 * b[4]))

FirstTagAt(b) == IF BLen(b) >= 4 /\ Raw(b, 0, 4) = <<8, 0, 0, 0>> THEN 8 ELSE 0
HasFirstTag(b) == BLen(b) > FirstTagAt(b)
FirstTag(b) == BAt(b, FirstTagAt(b))

\* a complete, well-formed name lies at offset q of b
NameAt(b, q) ==
    /\ BLen(b) >= q + 2
    /\ BLen(b) >= q + 2 + U16(Raw(b, q, 2))
    /\ from_utf8(Take(b, q + 2, U16(Raw(b, q, 2))))

\* C6, as claimed: decoding any stream whose first tag id is not 0x0A fails
\* with the root-tag error carrying that tag id, whatever bytes follow it.
C6_RootRejection ==
    (IsRead /\ HasFirstTag(last.param.bytes) /\ FirstTag(last.param.bytes) # TagCompound) =>
        last.err = ErrRoot(FirstTag(last.param.bytes))

\* C6, amended: decoding a stream of at least 4 bytes whose first tag id is not
\* 0x0A, and is either 0 or followed by a complete well-formed name, fails with
\* the root-tag error carrying that tag id, and no tree is returned.
C6_RootRejectionWhenHeaderReads ==
    (/\ IsRead
     /\ BLen(last.param.bytes) >= 4
     /\ HasFirstTag(last.param.bytes)
     /\ FirstTag(last.param.bytes) # TagCompound
     /\ (FirstTag(last.param.bytes) = TagEnd
            \/ NameAt(last.param.bytes, FirstTagAt(last.param.bytes) + 1))) =>
        /\ last.err = ErrRoot(FirstTag(last.param.bytes))
        /\ nbt = last.before

\* a framed stream whose root tag, at offset 8, is Int has been rejected
C6_Witness ==
    /\ IsRead
    /\ FirstTagAt(last.param.bytes) = 8
    /\ HasFirstTag(last.param.bytes)
    /\ FirstTag(last.param.bytes) = TagInt
    /\ last.err = ErrRoot(TagInt)

\* C8: decode of any finite byte sequence returns a tree or one of the declared
\* errors (IO, Utf8, Root, InvalidTypeId); it never aborts the process.
C8_DecodeIsTotal ==
    IsRead => last.err.kind \in {"Ok", "IO", "Utf8", "Root", "InvalidTypeId"}

\* a string laid out at offset q of b: two bytes holding its length as an
\* unsigned little-endian number, then its bytes
StringAt(b, q, str) ==
    /\ Have(b, q, 2 + BLen(str))
    /\ U16(Raw(b, q, 2)) = BLen(str)
    /\ Take(b, q + 2, BLen(str)) = str

\* the entries m[i..] laid out from offset q of b (tag id, name, payload each),
\* then one 0x00 ending b
RECURSIVE EntriesAt(_, _, _, _)
EntriesAt(b, q, m, i) ==
    IF i > Len(m) THEN BLen(b) = q + 1 /\ BAt(b, q) = TagEnd
    ELSE LET payload == Value_write(m[i].v, <<>>).c
             r == q + 1 + 2 + BLen(m[i].k)
         IN  /\ Have(b, q, 1)
             /\ BAt(b, q) = Value_tag(m[i].v)
             /\ StringAt(b, q + 1, m[i].k)
             /\ Have(b, r, BLen(payload))
             /\ Take(b, r, BLen(payload)) = payload
             /\ EntriesAt(b, r + BLen(payload), m, i + 1)

\* the bytes of the documented example
ExampleBytes ==
    Pack(<<10, 4, 0, 84, 101, 115, 116, 3, 3, 0, 107, 101, 121, 3, 0, 0, 0, 0>>)

\* C11: the unframed encoding of a tree is 0x0A, the name as a 2-byte
\* little-endian length and its bytes, every root entry in order as tag id,
\* name and payload, and one closing 0x00; the tree "Test" with {"key": Int(3)}
\* encodes to exactly the documented 18 bytes, and they decode to that tree.
C11_WireLayout ==
    /\ (last.op = "write" /\ last.param = FALSE /\ last.err = NoErr) =>
            /\ BLen(stream) >= 1
            /\ BAt(stream, 0) = TagCompound
            /\ StringAt(stream, 1, last.before.name)
            /\ EntriesAt(stream, 3 + BLen(last.before.name), last.before.data.v, 1)
            /\ (last.before = TestTree => stream = ExampleBytes)
    /\ (IsRead /\ last.param.bytes = ExampleBytes) =>
            /\ last.err = NoErr
            /\ nbt = TestTree

\* x with the value at segs replaced by v, every key in its place
RECURSIVE ReplaceAt(_, _, _)
ReplaceAt(x, segs, v) ==
    LET i == MapGet(x.v, segs[1])
    IN  IF Len(segs) = 1
        THEN Val(TagCompound, [x.v EXCEPT ![i] = Entry(segs[1], v)])
        ELSE Val(TagCompound,
                 [x.v EXCEPT ![i] = Entry(x.v[i].k, ReplaceAt(x.v[i].v, Tail(segs), v))])

\* x with the entry (last of segs, v) added at the end of the Compound at the
\* front of segs
RECURSIVE AppendAt(_, _, _)
AppendAt(x, segs, v) ==
    IF Len(segs) = 1 THEN Val(TagCompound, Append(x.v, Entry(segs[1], v)))
    ELSE LET i == MapGet(x.v, segs[1])
         IN  Val(TagCompound,
                 [x.v EXCEPT ![i] = Entry(x.v[i].k, AppendAt(x.v[i].v, Tail(segs), v))])

\* the Compound that is to hold the last key of segs exists
ParentAt(x, segs) ==
    IF Len(segs) = 1 THEN IsCompound(x)
    ELSE /\ ExistsAt(x, SubSeq(segs, 1, Len(segs) - 1))
         /\ IsCompound(ValueAt(x, SubSeq(segs, 1, Len(segs) - 1)))

\* the last segment name of segs occurs nowhere earlier in segs
LastNameOnce(segs) == \A i \in 1..(Len(segs) - 1) : segs[i] # segs[Len(segs)]

\* a root Compound in which the name "a" occurs twice: "a": Byte(1),
\* "b": Byte(2), "a": Byte(3)
DupBytes ==
    Pack(<<10, 0, 0, 1, 1, 0, 97, 1, 1, 1, 0, 98, 2, 1, 1, 0, 97, 3, 0>>)

\* C12: a set that writes a value under a key its Compound already holds
\* replaces the value and leaves every key at its position, and a key the
\* Compound does not hold is added at the end; a name repeated while a Compound
\* is decoded keeps the position of its first occurrence and the value of its
\* last. (Paths whose last segment name occurs earlier are the subject of C2.)
C12_ReplaceKeepsPosition ==
    /\ (IsSet /\ last.param.value.kind = "some" /\ IsCompound(last.before.data)) =>
            \A segs \in Spelled(last.param.path) :
                (LastNameOnce(segs) /\ ParentAt(last.before.data, segs)) =>
                    /\ last.err = NoErr
                    /\ nbt.data = IF ExistsAt(last.before.data, segs)
                                  THEN ReplaceAt(last.before.data, segs, last.param.value.v)
                                  ELSE AppendAt(last.before.data, segs, last.param.value.v)
    /\ (IsRead /\ last.param.bytes = DupBytes) =>
            /\ last.err = NoErr
            /\ nbt.data = Compound2(KeyA, Val(TagByte, 3), KeyB, Val(TagByte, 2))

(***************************************************************************)
(* The editor on trees that come from named or from a decode: from(bytes)  *)
(* on a byte vector of the caller, named, and set.                         *)
(***************************************************************************)
\* the byte vectors handed to from: encodings of trees, unframed and framed, a
\* stream with an Int as its root, a stream cut short
DecodeInputs ==
    {NBT_write(NBT(<<>>, Compound1(KeyA, Int3)), <<>>, FALSE).c,
     NBT_write(NBT(<<>>, Compound2(KeyB, StrX, KeyA, EmptyCompound)), <<>>, TRUE).c,
     Pack(<<3, 0, 0, 3, 0, 0, 0>>),
     Pack(<<10, 0, 0, 3, 1, 0>>)}

\* the paths handed to set: those of Paths that start at the root's "a" and have
\* a segment less, and the empty one
RootPaths ==
    {Join(segs) : segs \in {q \in SegSeqs : Len(q) < MaxPath /\ q[1] = KeyA}} \cup {<<>>}

\* the values handed to set: those of SetValues and a heterogeneous List
HeteroList == Val(TagList, <<Int3, StrX>>)
RootValues == SetValues \cup {Some(HeteroList)}

\* wasm.rs from(bytes) on a byte vector of the caller; a failed call makes no
\* object, the one at hand stays
FromBytes(bytes) ==
    /\ Usable
    /\ LET r == NBT_read(bytes)
       IN  /\ nbt' = IF r.ok THEN r.v ELSE nbt
           /\ last' = Call("from", bytes, nbt, r.err)
    /\ UNCHANGED <<stream, layout>>

NextRoot ==
    \/ Named(NameT)
    \/ \E bytes \in DecodeInputs : FromBytes(bytes)
    \/ \E path \in RootPaths, value \in RootValues : Set(path, value)

SpecRoot == Init /\ [][NextRoot]_vars

====
